---- MODULE Spec2Model ----
(***************************************************************************)
(* Audio sync checker (src/app.py): the upload handler upload_files, the   *)
(* lag estimator compute_offset, and the fingerprint cache that spec.md    *)
(* describes.                                                              *)
(*                                                                         *)
(* Numbers.  An RMS envelope is a sequence of integer energy levels.  A    *)
(* normalized envelope value (raw - min) / (max - min + 1e-10) is held as  *)
(* the integer numerator over the common denominator NormScale; the factor *)
(* (max - min) / (max - min + 1e-10) scales a whole envelope by one        *)
(* positive constant and is left out (a constant envelope is exactly 0     *)
(* either way).  offset_ms is held in hundredths of a millisecond, which   *)
(* is what round(offset_ms, 2) reports.  Python indices are 0-based: At    *)
(* reads a sequence at a 0-based index.                                    *)
(***************************************************************************)
EXTENDS Integers, Sequences, FiniteSets, TLC

VARIABLES pc, request, response, scratch, calls,
          ref_audio, test_audio, out,
          cache, fp_calls, fp_total, served

vars == <<pc, request, response, scratch, calls,
          ref_audio, test_audio, out, cache, fp_calls, fp_total, served>>

uploadVars == <<request, response, scratch, calls>>
offsetVars == <<ref_audio, test_audio, out>>
cacheVars == <<cache, fp_calls, fp_total, served>>

\* ------------------------------------------------------------------ bounds
MaxRefLen == 6
MaxTestLen == 3
MaxLevel == 1
MaxCands == 3
NumKeys == 3
MaxFpCalls == 6

\* ------------------------------------------------------- program constants
sr == 22050
hop_length == 512
threshold_ms == 50

\* ----------------------------------------------------------------- helpers
Abs(x) == IF x < 0 THEN -x ELSE x

At(s, i) == s[i + 1]

RECURSIVE Fact(_)
Fact(n) == IF n <= 1 THEN 1 ELSE n * Fact(n - 1)

NormScale == Fact(MaxLevel)

RECURSIVE SeqMin(_)
SeqMin(s) ==
    IF Len(s) = 1 THEN s[1]
    ELSE LET m == SeqMin(Tail(s)) IN IF s[1] < m THEN s[1] ELSE m

RECURSIVE SeqMax(_)
SeqMax(s) ==
    IF Len(s) = 1 THEN s[1]
    ELSE LET m == SeqMax(Tail(s)) IN IF s[1] > m THEN s[1] ELSE m

\* The sequences over 0..MaxLevel of length lo..hi.
EnvelopesOfLen(lo, hi) == UNION {[1..n -> 0..MaxLevel] : n \in lo..hi}

\* ---------------------------------------------------------- compute_offset
\* librosa.load / trim / feature.rms: a file's content is either undecodable
\* or the RMS envelope of its samples; <<>> is a file of zero samples.  No
\* energy level is negative, so <<-1>> can stand for the undecodable content.
Corrupt == <<-1>>

Decodes(audio) == audio # Corrupt

\* ref_rms = (ref_rms - min) / (max - min + 1e-10)
Normalize(rms) ==
    LET lo == SeqMin(rms)
        hi == SeqMax(rms)
    IN  [i \in 1..Len(rms) |->
            IF hi = lo THEN 0 ELSE ((rms[i] - lo) * NormScale) \div (hi - lo)]

\* One term of the correlation sum: in1[l] * in2[l - k + len(in2) - 1],
\* in2 taken as 0 outside its range.
CorrTerm(in1, in2, k, l) ==
    LET m == l - k + Len(in2) - 1
    IN  IF m >= 0 /\ m < Len(in2) THEN At(in1, l) * At(in2, m) ELSE 0

RECURSIVE CorrSum(_, _, _, _)
CorrSum(in1, in2, k, l) ==
    IF l < 0 THEN 0 ELSE CorrTerm(in1, in2, k, l) + CorrSum(in1, in2, k, l - 1)

\* signal.correlate(in1, in2, mode='full')
CorrelateFull(in1, in2) ==
    [j \in 1..(Len(in1) + Len(in2) - 1) |-> CorrSum(in1, in2, j - 1, Len(in1) - 1)]

\* scipy's _centered: the middle newlen entries of arr
Centered(arr, newlen) ==
    LET startind == (Len(arr) - newlen) \div 2
    IN  SubSeq(arr, startind + 1, startind + newlen)

\* signal.correlate(in1, in2, mode='same'): the size of in1, centered in 'full'
Correlate(in1, in2) == Centered(CorrelateFull(in1, in2), Len(in1))

\* np.argmax scans left to right and keeps the first maximum
RECURSIVE ArgMaxScanLast(_, _, _)
ArgMaxScanLast(a, i, best) ==
    IF i >= Len(a) THEN best
    ELSE ArgMaxScanLast(a, i + 1, IF At(a, i) >= At(a, best) THEN i ELSE best)

RECURSIVE ArgMaxScan(_, _, _)
ArgMaxScan(a, i, best) ==
    IF i >= Len(a) THEN best
    ELSE ArgMaxScan(a, i + 1, IF At(a, i) > At(a, best) THEN i ELSE best)

ArgMaxLast(a) == ArgMaxScanLast(a, 1, 0)

ArgMax(a) == ArgMaxScan(a, 1, 0)

\* lag = np.argmax(correlation) - len(ref_rms) // 2
Lag(ref_rms, test_rms) ==
    LET correlation == Correlate(Normalize(test_rms), Normalize(ref_rms))
    IN  ArgMax(correlation) - (Len(ref_rms) \div 2)

\* round(num / den) to the nearest integer, ties to even, for den > 0
RoundDiv(num, den) ==
    LET q == num \div den
        r == num % den
    IN  IF 2 * r < den THEN q
        ELSE IF 2 * r > den THEN q + 1
        ELSE IF q % 2 = 0 THEN q ELSE q + 1

\* round(lag * hop_length / sr * 1000, 2), in hundredths of a millisecond
RoundedOffset(lag) == RoundDiv(lag * hop_length * 1000 * 100, sr)

\* needs_review = abs(offset_ms) > threshold_ms, on the unrounded offset
NeedsReviewSigned(lag) == lag * hop_length * 1000 > threshold_ms * sr

NeedsReview(lag) == Abs(lag) * hop_length * 1000 > threshold_ms * sr

compute_offset(reference, test) ==
    IF ~Decodes(reference) \/ ~Decodes(test)
    THEN [ok |-> FALSE, error |-> <<"Failed to process audio: ", "decode error">>]
    ELSE IF Len(reference) = 0 \/ Len(test) = 0
    THEN [ok |-> FALSE,
          error |-> <<"Failed to process audio: ",
                      "One of the audio files is empty or could not be loaded">>]
    ELSE LET lag == Lag(reference, test)
         IN  [ok |-> TRUE, lag |-> lag,
              offset_ms |-> RoundedOffset(lag),
              needs_review |-> NeedsReview(lag)]

NoResult == [ok |-> FALSE, error |-> <<"not computed">>]

\* ------------------------------------------------------------ upload_files
\* A filename is a sequence of tokens; "." is the only token holding a dot.
Dot == "."

ALLOWED_EXTENSIONS ==
    {<<"wav">>, <<"mp3">>, <<"m4a">>, <<"flac">>, <<"aac">>, <<"mp4">>}

\* str.lower() on the tokens the model uses
Lower(tok) ==
    CASE tok = "WAV" -> "wav"
      [] tok = "MP3" -> "mp3"
      [] OTHER -> tok

HasDot(filename) == \E i \in 1..Len(filename) : filename[i] = Dot

\* filename.rsplit('.', 1)[1].lower(), for a filename holding a dot
Extension(filename) ==
    LET last == CHOOSE i \in 1..Len(filename) :
                    /\ filename[i] = Dot
                    /\ \A j \in (i + 1)..Len(filename) : filename[j] # Dot
        ext == SubSeq(filename, last + 1, Len(filename))
    IN  [i \in 1..Len(ext) |-> Lower(ext[i])]

allowed_file_dot_only(filename) == HasDot(filename)

allowed_file(filename) ==
    HasDot(filename) /\ Extension(filename) \in ALLOWED_EXTENSIONS

\* f"{uuid.uuid4().hex}.{ext}" under UPLOAD_FOLDER: n stands for the fresh uuid
UniquePath(n, filename) == [id |-> n, ext |-> Extension(filename)]

\* file.save(path)
Save(disk, path, file) == disk \cup {[path |-> path, audio |-> file.audio]}

\* what librosa.load finds at path
Load(disk, path) == (CHOOSE f \in disk : f.path = path).audio

ErrorResponse(status, msg) == [status |-> status, body |-> [error |-> msg]]

Outcome(resp, disk, invoked) == [response |-> resp, scratch |-> disk, calls |-> invoked]

\* results.append({...})
AppendResultFront(results, entry) == <<entry>> \o results

AppendResult(results, entry) == Append(results, entry)

\* comp_files = [f for f in comp_files if f.filename != '']
RECURSIVE NonEmptyNamed(_)
NonEmptyNamed(files) ==
    IF files = <<>> THEN <<>>
    ELSE IF Head(files).filename # <<>>
         THEN <<Head(files)>> \o NonEmptyNamed(Tail(files))
         ELSE NonEmptyNamed(Tail(files))

\* The loop over saved_paths[1:] from its i-th entry on.
RECURSIVE ComputeLoop(_, _, _, _, _)
ComputeLoop(saved_paths, i, results, disk, invoked) ==
    IF i > Len(saved_paths)
    THEN Outcome([status |-> 200,
                  body |-> [reference |-> saved_paths[1].filename,
                            results |-> results]],
                 disk, invoked)
    ELSE LET ref_path == saved_paths[1].path
             filename == saved_paths[i].filename
             path == saved_paths[i].path
             r == compute_offset(Load(disk, ref_path), Load(disk, path))
             invoked2 == Append(invoked, <<ref_path, path>>)
         IN  IF r.ok
             THEN ComputeLoop(saved_paths, i + 1,
                              AppendResult(results,
                                           [filename |-> filename,
                                            offset_ms |-> r.offset_ms,
                                            needs_review |-> r.needs_review]),
                              disk, invoked2)
             ELSE Outcome(ErrorResponse(500,
                              <<"Error processing ", filename, ": ">> \o r.error),
                          disk, invoked2)

\* The loop that validates and saves comp_files from its idx-th entry on.
RECURSIVE SaveLoop(_, _, _, _)
SaveLoop(comp_files, idx, saved_paths, disk) ==
    IF idx > Len(comp_files)
    THEN ComputeLoop(saved_paths, 2, <<>>, disk, <<>>)
    ELSE LET file == comp_files[idx]
         IN  IF ~allowed_file(file.filename)
             THEN Outcome(ErrorResponse(400,
                              <<"File type not allowed: ", file.filename>>),
                          disk, <<>>)
             ELSE LET path == UniquePath(Len(saved_paths) + 1, file.filename)
                  IN  SaveLoop(comp_files, idx + 1,
                               Append(saved_paths,
                                      [filename |-> file.filename, path |-> path]),
                               Save(disk, path, file))

\* upload_files on one request, from a scratch folder holding disk
upload(req, disk) ==
    IF ~req.multipart
    THEN Outcome(ErrorResponse(400, <<"Content type must be multipart/form-data">>),
                 disk, <<>>)
    ELSE IF req.reference = <<>>
    THEN Outcome([status |-> 400,
                  body |-> [error |-> <<"No reference file provided">>,
                            debug |-> <<"received_keys", "content_type">>]],
                 disk, <<>>)
    ELSE IF req.comparison = <<>>
    THEN Outcome([status |-> 400,
                  body |-> [error |-> <<"No comparison files provided">>,
                            debug |-> <<"received_keys", "reference_found">>]],
                 disk, <<>>)
    ELSE LET ref_file == req.reference[1]
             comp_files == NonEmptyNamed(req.comparison)
         IN  IF ref_file.filename = <<>>
             THEN Outcome(ErrorResponse(400, <<"Reference file is empty">>), disk, <<>>)
             ELSE IF Len(comp_files) = 0
             THEN Outcome(ErrorResponse(400,
                              <<"Please upload at least one valid comparison file">>),
                          disk, <<>>)
             ELSE IF ~allowed_file(ref_file.filename)
             THEN Outcome(ErrorResponse(400,
                              <<"Reference file type not allowed: ", ref_file.filename>>),
                          disk, <<>>)
             ELSE LET ref_path == UniquePath(1, ref_file.filename)
                  IN  SaveLoop(comp_files, 1,
                               <<[filename |-> ref_file.filename, path |-> ref_path]>>,
                               Save(disk, ref_path, ref_file))

\* ------------------------------------------------------ FingerprintService
\* Content-hash keys of the files whose fingerprint is requested.
Keys == 1..NumKeys

\* The external fingerprinting capability: an opaque signature of the content.
Fingerprinter(key) == <<"fp", key>>

NoCache == <<>>
NoCalls == [k \in Keys |-> 0]
NotServed == [op |-> "none", key |-> 0, hit |-> FALSE, fp |-> <<>>]

NeverCached(c, key) == FALSE

\* a cache entry exists for the key
Cached(c, key) == key \in DOMAIN c

\* ------------------------------------------------------------------ inputs
GoodAudio == <<1, 0, 0>>
LateAudio == <<0, 0, 1>>

File(filename, audio) == [filename |-> filename, audio |-> audio]

Files ==
    {File(<<>>, <<>>),
     File(<<"a", Dot, "wav">>, GoodAudio),
     File(<<"a", Dot, "wav">>, Corrupt),
     File(<<"a", Dot, "wav">>, <<>>),
     File(<<"b", Dot, "MP3">>, LateAudio),
     File(<<"c", Dot, "txt">>, GoodAudio),
     File(<<"noext">>, GoodAudio)}

FileSeqs(lo, hi) == UNION {[1..n -> Files] : n \in lo..hi}

\* Flask parses files only out of a multipart body; a key is in request.files
\* when at least one part carries it.
Requests ==
    {[multipart |-> FALSE, reference |-> <<>>, comparison |-> <<>>]}
    \cup {[multipart |-> TRUE, reference |-> r, comparison |-> c] :
             r \in FileSeqs(0, 1), c \in FileSeqs(0, MaxCands)}

NoResponse == [status |-> 0, body |-> [error |-> <<"no response yet">>]]
NoRequest == [multipart |-> FALSE, reference |-> <<>>, comparison |-> <<>>]

\* ------------------------------------------------- the upload specification
\* UPLOAD_FOLDER = tempfile.mkdtemp(): an empty folder; one request arrives.
Init ==
    /\ pc = "received"
    /\ request \in Requests
    /\ response = NoResponse
    /\ scratch = {}
    /\ calls = <<>>
    /\ ref_audio = <<>> /\ test_audio = <<>> /\ out = NoResult
    /\ cache = NoCache /\ fp_calls = NoCalls /\ fp_total = 0 /\ served = NotServed

upload_files ==
    /\ pc = "received"
    /\ LET o == upload(request, scratch)
       IN  /\ response' = o.response
           /\ scratch' = o.scratch
           /\ calls' = o.calls
    /\ pc' = "done"
    /\ UNCHANGED <<request, offsetVars, cacheVars>>

Next == upload_files

Spec == Init /\ [][Next]_vars

\* ------------------------------------------------- the offset specification
InitOffset ==
    /\ pc = "loaded"
    /\ ref_audio \in EnvelopesOfLen(0, MaxRefLen)
    /\ test_audio \in EnvelopesOfLen(0, MaxTestLen)
    /\ out = NoResult
    /\ request = NoRequest /\ response = NoResponse /\ scratch = {} /\ calls = <<>>
    /\ cache = NoCache /\ fp_calls = NoCalls /\ fp_total = 0 /\ served = NotServed

ComputeOffset ==
    /\ pc = "loaded"
    /\ out' = compute_offset(ref_audio, test_audio)
    /\ pc' = "computed"
    /\ UNCHANGED <<ref_audio, test_audio, uploadVars, cacheVars>>

NextOffset == ComputeOffset

SpecOffset == InitOffset /\ [][NextOffset]_vars

\* -------------------------------------------------- the cache specification
InitCache ==
    /\ pc = "serving"
    /\ cache = NoCache /\ fp_calls = NoCalls /\ fp_total = 0 /\ served = NotServed
    /\ request = NoRequest /\ response = NoResponse /\ scratch = {} /\ calls = <<>>
    /\ ref_audio = <<>> /\ test_audio = <<>> /\ out = NoResult

\* The fingerprint of the content with this key: the cached entry, or a fresh
\* computation that creates the entry.
get_fingerprint(key) ==
    /\ pc = "serving"
    /\ \/ /\ Cached(cache, key)
          /\ served' = [op |-> "get", key |-> key, hit |-> TRUE, fp |-> cache[key]]
          /\ UNCHANGED <<cache, fp_calls, fp_total>>
       \/ /\ ~Cached(cache, key)
          /\ fp_total < MaxFpCalls
          /\ fp_calls' = [fp_calls EXCEPT ![key] = @ + 1]
          /\ fp_total' = fp_total + 1
          /\ cache' = [k \in DOMAIN cache \cup {key} |->
                          IF k = key THEN Fingerprinter(key) ELSE cache[k]]
          /\ served' = [op |-> "get", key |-> key, hit |-> FALSE,
                        fp |-> Fingerprinter(key)]
    /\ UNCHANGED <<pc, uploadVars, offsetVars>>

\* The cache-clear operation: every entry is evicted.  fp_calls counts the
\* capability's invocations per key since the last clear.
clear_cache ==
    /\ pc = "serving"
    /\ cache' = NoCache
    /\ fp_calls' = NoCalls
    /\ served' = [op |-> "clear", key |-> 0, hit |-> FALSE, fp |-> <<>>]
    /\ UNCHANGED <<pc, fp_total, uploadVars, offsetVars>>

NextCache == (\E key \in Keys : get_fingerprint(key)) \/ clear_cache

SpecCache == InitCache /\ [][NextCache]_vars

\* ================================================================== claims
Done == pc = "done"
Body == response.body
IsReport == "results" \in DOMAIN Body
IsError == "error" \in DOMAIN Body

\* The submitted candidates with a non-empty filename, in submission order.
NamedCandidates == SelectSeq(request.comparison, LAMBDA f : f.filename # <<>>)

\* The extension after the last dot, lowercased, is none of the allowed ones.
TypeNotAllowed(filename) ==
    \/ \A i \in 1..Len(filename) : filename[i] # Dot
    \/ Extension(filename) \notin ALLOWED_EXTENSIONS

\* The request passes validation: every file is saved and processing starts.
Validated ==
    /\ request.multipart
    /\ request.reference # <<>>
    /\ ~TypeNotAllowed(request.reference[1].filename)
    /\ NamedCandidates # <<>>
    /\ \A i \in 1..Len(NamedCandidates) : ~TypeNotAllowed(NamedCandidates[i].filename)

\* The reference decodes to a non-empty audio: a failure is a candidate's own.
ReferenceLoads ==
    /\ Decodes(request.reference[1].audio)
    /\ Len(request.reference[1].audio) > 0

\* C1 -- Batch isolation: in a validated request with several candidates, a
\* candidate whose processing fails does not abort the others: compute_offset
\* is run for every candidate and the response carries one entry per candidate.
C1_BatchIsolation ==
    (Done /\ Validated /\ ReferenceLoads /\ Len(NamedCandidates) >= 2) =>
        /\ Len(calls) = Len(NamedCandidates)
        /\ IsReport
        /\ Len(Body.results) = Len(NamedCandidates)

\* A request-level failure as C2 lists them.
RequestLevelFailure ==
    \/ request.reference = <<>>
    \/ request.reference[1].filename = <<>>
    \/ \A i \in 1..Len(request.comparison) : request.comparison[i].filename = <<>>
    \/ TypeNotAllowed(request.reference[1].filename)

\* C2 -- A request-level failure (no reference, reference with an empty
\* filename, no candidate with a non-empty filename, reference type not
\* allowed) is answered with an error payload that has a message and no
\* results, and compute_offset is never invoked for the request.
C2_RequestLevelError ==
    (Done /\ RequestLevelFailure) =>
        /\ IsError
        /\ Body.error # <<>>
        /\ ~IsReport
        /\ calls = <<>>

\* C2's case: candidates are there and named, only the reference's type fails.
C2_Witness ==
    /\ Done
    /\ request.reference # <<>>
    /\ request.reference[1].filename # <<>>
    /\ TypeNotAllowed(request.reference[1].filename)
    /\ NamedCandidates # <<>>
    /\ \A i \in 1..Len(NamedCandidates) : ~TypeNotAllowed(NamedCandidates[i].filename)
    /\ IsError /\ calls = <<>>

\* C3 -- On success the results list has exactly one entry per submitted
\* candidate with a non-empty filename, in submission order, and reference is
\* the uploaded reference's filename.
C3_ResultsInOrder ==
    (Done /\ IsReport) =>
        /\ Len(Body.results) = Len(NamedCandidates)
        /\ \A i \in 1..Len(NamedCandidates) :
               Body.results[i].filename = NamedCandidates[i].filename
        /\ Body.reference = request.reference[1].filename

\* C3's case: a report over differently named candidates, one part skipped
\* for its empty filename.
C3_Witness ==
    /\ Done /\ IsReport
    /\ Len(Body.results) >= 2
    /\ Body.results[1].filename # Body.results[2].filename
    /\ Len(request.comparison) > Len(Body.results)

ResultFields == {"filename", "offset_ms", "match_confidence", "needs_review", "issues"}

\* C6 -- Every response is an error payload or a report {reference, results}
\* whose entries all carry filename, offset_ms, match_confidence, needs_review
\* and issues.
C6_ResponseShape ==
    Done =>
        \/ IsError /\ ~IsReport
        \/ /\ DOMAIN Body = {"reference", "results"}
           /\ \A i \in 1..Len(Body.results) : ResultFields \subseteq DOMAIN Body.results[i]

\* C10 -- Scratch cleanup: every file the request wrote to the scratch folder
\* is gone when the request completes, with a report or with an error.
C10_ScratchCleanup == Done => scratch = {}

Computed == pc = "computed"

\* C4 -- Identity: a non-empty audio compared against itself has offset_ms 0.0
\* and needs_review false, a constant-energy envelope included.
C4_Identity ==
    (Computed /\ ref_audio = test_audio /\ Len(ref_audio) > 0) =>
        /\ out.ok
        /\ out.offset_ms = 0
        /\ ~out.needs_review

\* C5 -- Desync threshold: needs_review is true exactly when the reported
\* (rounded) |offset_ms| is greater than 50, held here as 5000 hundredths.
C5_DesyncThreshold ==
    (Computed /\ out.ok) =>
        (out.needs_review <=> Abs(out.offset_ms) > threshold_ms * 100)

\* C5's case: an offset beyond the threshold, flagged for review.
C5_Witness ==
    /\ Computed /\ out.ok
    /\ out.needs_review
    /\ Abs(out.offset_ms) > threshold_ms * 100

RECURSIVE SumOver(_, _, _)
\* f[lo] + ... + f[hi]
SumOver(f, lo, hi) == IF lo > hi THEN 0 ELSE f[lo] + SumOver(f, lo + 1, hi)

\* The cross-correlation at a lag: the candidate against the reference shifted
\* right by shift frames, both 0 outside their range.
XCorrAt(cand, reference, shift) ==
    SumOver([l \in 0..(Len(cand) - 1) |->
                IF l - shift >= 0 /\ l - shift < Len(reference)
                THEN At(cand, l) * At(reference, l - shift) ELSE 0],
            0, Len(cand) - 1)

ref_rms == Normalize(ref_audio)
test_rms == Normalize(test_audio)

\* C8 -- Lag selection: lag_frame is the lowest index at which the same-mode
\* cross-correlation of candidate against reference is largest, minus
\* len(reference) // 2, output index i being the shift i - len(reference) // 2;
\* offset_ms is lag_frame * hop_length / sr * 1000 rounded to 2 decimals.
C8_LagSelection ==
    (Computed /\ out.ok) =>
        LET half == Len(ref_rms) \div 2
            same == [i \in 0..(Len(test_rms) - 1) |-> XCorrAt(test_rms, ref_rms, i - half)]
        IN  /\ \E i \in DOMAIN same :
                  /\ \A j \in DOMAIN same : same[j] <= same[i]
                  /\ \A j \in DOMAIN same : j < i => same[j] < same[i]
                  /\ out.lag = i - half
            /\ 2 * Abs(out.offset_ms * sr - out.lag * hop_length * 1000 * 100) <= sr

\* C8's case: the largest correlation is attained at several indices.
C8_Witness ==
    /\ Computed /\ out.ok
    /\ LET half == Len(ref_rms) \div 2
           same == [i \in 0..(Len(test_rms) - 1) |-> XCorrAt(test_rms, ref_rms, i - half)]
       IN  \E i, j \in DOMAIN same :
               /\ i < j
               /\ same[i] = same[j]
               /\ same[i] > 0
               /\ \A k \in DOMAIN same : same[k] <= same[i]
               /\ out.lag = i - half

\* The envelope read at any frame, 0 outside its range.
Frame(env, l) == IF l >= 0 /\ l < Len(env) THEN At(env, l) ELSE 0

\* cand is reference d frames later (earlier for d < 0), nothing cut off.
ShiftedBy(cand, reference, d) ==
    \A l \in (0 - MaxRefLen - MaxTestLen)..(MaxRefLen + MaxTestLen) :
        Frame(cand, l) = Frame(reference, l - d)

\* C9 -- Sign and centering: when the candidate envelope is the (not all-zero)
\* reference envelope delayed by d frames lag_frame is d and offset_ms is
\* positive for d > 0; when it is advanced by d frames lag_frame is -d.
C9_SignConvention ==
    (Computed /\ out.ok /\ SeqMax(ref_rms) > 0) =>
        \A d \in (0 - MaxRefLen)..MaxTestLen :
            ShiftedBy(test_rms, ref_rms, d) =>
                /\ out.lag = d
                /\ (d > 0 => out.offset_ms > 0)
                /\ (d < 0 => out.offset_ms < 0)

====
